---- MODULE Spec2Model ----
(***************************************************************************)
(* A model of package geoip2: the typed Reader in front of a maxminddb     *)
(* engine (capability mask, the eight query methods, Close, Metadata) and  *)
(* the "no data" oracles IsZero / HasData of the result structs.           *)
(*                                                                         *)
(* Result structs are nested TLA+ records that carry the Go field names.   *)
(* Their field lists follow the declarations that carry HasData            *)
(* (reader.go 987-1640).  A Go slice is a record [nil, elems] so that a    *)
(* nil slice and an empty non-nil slice are different values, as they are  *)
(* for reflect.DeepEqual.  netip.Addr and netip.Prefix keep their own      *)
(* representation: an Addr has a zone tag z ("z0" for the zero Addr) and   *)
(* its bits, a Prefix has an Addr and bitsPlusOne (0 for the zero Prefix). *)
(***************************************************************************)
EXTENDS Integers, Sequences, FiniteSets, TLC

VARIABLES
    reader,   \* the *Reader returned by Open/FromBytes (nil before)
    openErr,  \* the error returned by Open/FromBytes
    mmdb,     \* the maxminddb.Reader the Reader points to
    ret,      \* what the last Reader method call returned
    val,      \* a result-struct value held by a caller
    out,      \* the oracle last applied to val, and its verdict
    first,    \* the return values of an earlier call that a caller kept
    proc,     \* each concurrent caller: where its call is, and its locals
    heap      \* the result structs the calls of the callers declared

vars == <<reader, openErr, mmdb, ret, val, out, first, proc, heap>>

\* Width of an address in bits.
AddrBits == 1

\* Longest Subdivisions slice that is enumerated.
MaxSubdivisions == 2

----------------------------------------------------------------------------
(* netip.Addr and netip.Prefix                                             *)

RECURSIVE BitStrings(_)
BitStrings(n) ==
    IF n = 0 THEN {<<>>}
    ELSE {Append(s, b) : s \in BitStrings(n - 1), b \in {0, 1}}

ZeroAddr == [z |-> "z0", ip |-> <<>>]

MkAddr(bits) == [z |-> "z4", ip |-> bits]

Addrs == {MkAddr(b) : b \in BitStrings(AddrBits)}

ZeroPrefix == [ip |-> ZeroAddr, bitsPlusOne |-> 0]

\* The prefix whose first Len(head) bits are head; the other bits are masked.
MkPrefix(head) ==
    [ip |-> MkAddr(head \o [i \in 1..(AddrBits - Len(head)) |-> 0]),
     bitsPlusOne |-> Len(head) + 1]

PrefixIsValid(p) == p.bitsPlusOne > 0

PrefixContains(p, a) ==
    /\ PrefixIsValid(p)
    /\ a.z = p.ip.z
    /\ \A i \in 1..(p.bitsPlusOne - 1) : a.ip[i] = p.ip.ip[i]

----------------------------------------------------------------------------
(* Go slices                                                               *)

NilSlice == [nil |-> TRUE, elems |-> <<>>]

MkSlice(s) == [nil |-> FALSE, elems |-> s]

----------------------------------------------------------------------------
(* Decoding.  A database record is a map from key paths to values; the     *)
(* decoder fills the fields whose path the map holds and leaves the others *)
(* at their zero value.                                                    *)

Get(pl, path, zero) == IF path \in DOMAIN pl THEN pl[path] ELSE zero

Langs ==
    {"German", "English", "Spanish", "French", "Japanese",
     "BrazilianPortuguese", "Russian", "SimplifiedChinese"}

zeroNames ==
    [German |-> "", English |-> "", Spanish |-> "", French |-> "",
     Japanese |-> "", BrazilianPortuguese |-> "", Russian |-> "",
     SimplifiedChinese |-> ""]

DecodeNames(pl, g) ==
    [l \in Langs |-> Get(pl, <<g, "Names", l>>, "")]

DecodeEnterprise(pl) ==
    [Continent |->
        [Names |-> DecodeNames(pl, "Continent"),
         Code |-> Get(pl, <<"Continent", "Code">>, ""),
         GeoNameID |-> Get(pl, <<"Continent", "GeoNameID">>, 0)],
     City |->
        [Names |-> DecodeNames(pl, "City"),
         GeoNameID |-> Get(pl, <<"City", "GeoNameID">>, 0),
         Confidence |-> Get(pl, <<"City", "Confidence">>, 0)],
     Postal |->
        [Code |-> Get(pl, <<"Postal", "Code">>, ""),
         Confidence |-> Get(pl, <<"Postal", "Confidence">>, 0)],
     Subdivisions |-> Get(pl, <<"Subdivisions">>, NilSlice),
     RepresentedCountry |->
        [Names |-> DecodeNames(pl, "RepresentedCountry"),
         ISOCode |-> Get(pl, <<"RepresentedCountry", "ISOCode">>, ""),
         Type |-> Get(pl, <<"RepresentedCountry", "Type">>, ""),
         GeoNameID |-> Get(pl, <<"RepresentedCountry", "GeoNameID">>, 0),
         IsInEuropeanUnion |->
            Get(pl, <<"RepresentedCountry", "IsInEuropeanUnion">>, FALSE)],
     Country |->
        [Names |-> DecodeNames(pl, "Country"),
         ISOCode |-> Get(pl, <<"Country", "ISOCode">>, ""),
         GeoNameID |-> Get(pl, <<"Country", "GeoNameID">>, 0),
         Confidence |-> Get(pl, <<"Country", "Confidence">>, 0),
         IsInEuropeanUnion |->
            Get(pl, <<"Country", "IsInEuropeanUnion">>, FALSE)],
     RegisteredCountry |->
        [Names |-> DecodeNames(pl, "RegisteredCountry"),
         ISOCode |-> Get(pl, <<"RegisteredCountry", "ISOCode">>, ""),
         GeoNameID |-> Get(pl, <<"RegisteredCountry", "GeoNameID">>, 0),
         Confidence |-> Get(pl, <<"RegisteredCountry", "Confidence">>, 0),
         IsInEuropeanUnion |->
            Get(pl, <<"RegisteredCountry", "IsInEuropeanUnion">>, FALSE)],
     Traits |->
        [Network |-> ZeroPrefix,
         IPAddress |-> ZeroAddr,
         AutonomousSystemOrganization |->
            Get(pl, <<"Traits", "AutonomousSystemOrganization">>, ""),
         ConnectionType |-> Get(pl, <<"Traits", "ConnectionType">>, ""),
         Domain |-> Get(pl, <<"Traits", "Domain">>, ""),
         ISP |-> Get(pl, <<"Traits", "ISP">>, ""),
         MobileCountryCode |-> Get(pl, <<"Traits", "MobileCountryCode">>, ""),
         MobileNetworkCode |-> Get(pl, <<"Traits", "MobileNetworkCode">>, ""),
         Organization |-> Get(pl, <<"Traits", "Organization">>, ""),
         UserType |-> Get(pl, <<"Traits", "UserType">>, ""),
         StaticIPScore |-> Get(pl, <<"Traits", "StaticIPScore">>, 0),
         AutonomousSystemNumber |->
            Get(pl, <<"Traits", "AutonomousSystemNumber">>, 0),
         IsAnycast |-> Get(pl, <<"Traits", "IsAnycast">>, FALSE),
         IsLegitimateProxy |->
            Get(pl, <<"Traits", "IsLegitimateProxy">>, FALSE)],
     Location |->
        [TimeZone |-> Get(pl, <<"Location", "TimeZone">>, ""),
         Latitude |-> Get(pl, <<"Location", "Latitude">>, 0),
         Longitude |-> Get(pl, <<"Location", "Longitude">>, 0),
         MetroCode |-> Get(pl, <<"Location", "MetroCode">>, 0),
         AccuracyRadius |-> Get(pl, <<"Location", "AccuracyRadius">>, 0)]]

\* A City subdivision has no Confidence: the decoder drops that key.
CitySubdivisions(s) ==
    [nil |-> s.nil,
     elems |-> [i \in 1..Len(s.elems) |->
                  [Names |-> s.elems[i].Names,
                   ISOCode |-> s.elems[i].ISOCode,
                   GeoNameID |-> s.elems[i].GeoNameID]]]

DecodeCity(pl) ==
    [Traits |->
        [IPAddress |-> ZeroAddr,
         Network |-> ZeroPrefix,
         IsAnycast |-> Get(pl, <<"Traits", "IsAnycast">>, FALSE)],
     Postal |->
        [Code |-> Get(pl, <<"Postal", "Code">>, "")],
     Continent |->
        [Names |-> DecodeNames(pl, "Continent"),
         Code |-> Get(pl, <<"Continent", "Code">>, ""),
         GeoNameID |-> Get(pl, <<"Continent", "GeoNameID">>, 0)],
     City |->
        [Names |-> DecodeNames(pl, "City"),
         GeoNameID |-> Get(pl, <<"City", "GeoNameID">>, 0)],
     Subdivisions |-> CitySubdivisions(Get(pl, <<"Subdivisions">>, NilSlice)),
     RepresentedCountry |->
        [Names |-> DecodeNames(pl, "RepresentedCountry"),
         ISOCode |-> Get(pl, <<"RepresentedCountry", "ISOCode">>, ""),
         Type |-> Get(pl, <<"RepresentedCountry", "Type">>, ""),
         GeoNameID |-> Get(pl, <<"RepresentedCountry", "GeoNameID">>, 0),
         IsInEuropeanUnion |->
            Get(pl, <<"RepresentedCountry", "IsInEuropeanUnion">>, FALSE)],
     Country |->
        [Names |-> DecodeNames(pl, "Country"),
         ISOCode |-> Get(pl, <<"Country", "ISOCode">>, ""),
         GeoNameID |-> Get(pl, <<"Country", "GeoNameID">>, 0),
         IsInEuropeanUnion |->
            Get(pl, <<"Country", "IsInEuropeanUnion">>, FALSE)],
     RegisteredCountry |->
        [Names |-> DecodeNames(pl, "RegisteredCountry"),
         ISOCode |-> Get(pl, <<"RegisteredCountry", "ISOCode">>, ""),
         GeoNameID |-> Get(pl, <<"RegisteredCountry", "GeoNameID">>, 0),
         IsInEuropeanUnion |->
            Get(pl, <<"RegisteredCountry", "IsInEuropeanUnion">>, FALSE)],
     Location |->
        [TimeZone |-> Get(pl, <<"Location", "TimeZone">>, ""),
         Latitude |-> Get(pl, <<"Location", "Latitude">>, 0),
         Longitude |-> Get(pl, <<"Location", "Longitude">>, 0),
         MetroCode |-> Get(pl, <<"Location", "MetroCode">>, 0),
         AccuracyRadius |-> Get(pl, <<"Location", "AccuracyRadius">>, 0)]]

DecodeCountry(pl) ==
    [Traits |->
        [IPAddress |-> ZeroAddr,
         Network |-> ZeroPrefix,
         IsAnycast |-> Get(pl, <<"Traits", "IsAnycast">>, FALSE)],
     Continent |->
        [Names |-> DecodeNames(pl, "Continent"),
         Code |-> Get(pl, <<"Continent", "Code">>, ""),
         GeoNameID |-> Get(pl, <<"Continent", "GeoNameID">>, 0)],
     RepresentedCountry |->
        [Names |-> DecodeNames(pl, "RepresentedCountry"),
         ISOCode |-> Get(pl, <<"RepresentedCountry", "ISOCode">>, ""),
         Type |-> Get(pl, <<"RepresentedCountry", "Type">>, ""),
         GeoNameID |-> Get(pl, <<"RepresentedCountry", "GeoNameID">>, 0),
         IsInEuropeanUnion |->
            Get(pl, <<"RepresentedCountry", "IsInEuropeanUnion">>, FALSE)],
     Country |->
        [Names |-> DecodeNames(pl, "Country"),
         ISOCode |-> Get(pl, <<"Country", "ISOCode">>, ""),
         GeoNameID |-> Get(pl, <<"Country", "GeoNameID">>, 0),
         IsInEuropeanUnion |->
            Get(pl, <<"Country", "IsInEuropeanUnion">>, FALSE)],
     RegisteredCountry |->
        [Names |-> DecodeNames(pl, "RegisteredCountry"),
         ISOCode |-> Get(pl, <<"RegisteredCountry", "ISOCode">>, ""),
         GeoNameID |-> Get(pl, <<"RegisteredCountry", "GeoNameID">>, 0),
         IsInEuropeanUnion |->
            Get(pl, <<"RegisteredCountry", "IsInEuropeanUnion">>, FALSE)]]

DecodeAnonymousIP(pl) ==
    [IPAddress |-> ZeroAddr,
     Network |-> ZeroPrefix,
     IsAnonymous |-> Get(pl, <<"IsAnonymous">>, FALSE),
     IsAnonymousVPN |-> Get(pl, <<"IsAnonymousVPN">>, FALSE),
     IsHostingProvider |-> Get(pl, <<"IsHostingProvider">>, FALSE),
     IsPublicProxy |-> Get(pl, <<"IsPublicProxy">>, FALSE),
     IsResidentialProxy |-> Get(pl, <<"IsResidentialProxy">>, FALSE),
     IsTorExitNode |-> Get(pl, <<"IsTorExitNode">>, FALSE)]

DecodeASN(pl) ==
    [IPAddress |-> ZeroAddr,
     Network |-> ZeroPrefix,
     AutonomousSystemOrganization |->
        Get(pl, <<"AutonomousSystemOrganization">>, ""),
     AutonomousSystemNumber |-> Get(pl, <<"AutonomousSystemNumber">>, 0)]

DecodeConnectionType(pl) ==
    [ConnectionType |-> Get(pl, <<"ConnectionType">>, ""),
     IPAddress |-> ZeroAddr,
     Network |-> ZeroPrefix]

DecodeDomain(pl) ==
    [Domain |-> Get(pl, <<"Domain">>, ""),
     IPAddress |-> ZeroAddr,
     Network |-> ZeroPrefix]

DecodeISP(pl) ==
    [Network |-> ZeroPrefix,
     IPAddress |-> ZeroAddr,
     AutonomousSystemOrganization |->
        Get(pl, <<"AutonomousSystemOrganization">>, ""),
     ISP |-> Get(pl, <<"ISP">>, ""),
     MobileCountryCode |-> Get(pl, <<"MobileCountryCode">>, ""),
     MobileNetworkCode |-> Get(pl, <<"MobileNetworkCode">>, ""),
     Organization |-> Get(pl, <<"Organization">>, ""),
     AutonomousSystemNumber |-> Get(pl, <<"AutonomousSystemNumber">>, 0)]

\* The map with no key.
EmptyMap == [p \in {} |-> 0]

Kinds ==
    {"Enterprise", "City", "Country", "AnonymousIP", "ASN",
     "ConnectionType", "Domain", "ISP"}

NestedKinds == {"Enterprise", "City", "Country"}

\* result.Decode(&v) on a found record, v a fresh variable of the kind's type.
DecodeInto(kind, pl) ==
    CASE kind = "Enterprise" -> DecodeEnterprise(pl)
      [] kind = "City" -> DecodeCity(pl)
      [] kind = "Country" -> DecodeCountry(pl)
      [] kind = "AnonymousIP" -> DecodeAnonymousIP(pl)
      [] kind = "ASN" -> DecodeASN(pl)
      [] kind = "ConnectionType" -> DecodeConnectionType(pl)
      [] kind = "Domain" -> DecodeDomain(pl)
      [] kind = "ISP" -> DecodeISP(pl)

\* var v T: the zero value of the kind's struct.
ZeroValue(kind) == DecodeInto(kind, EmptyMap)

zeroEnterprise == ZeroValue("Enterprise")
zeroCity == ZeroValue("City")
zeroCountry == ZeroValue("Country")
zeroAnonymousIP == ZeroValue("AnonymousIP")
zeroASN == ZeroValue("ASN")
zeroConnectionType == ZeroValue("ConnectionType")
zeroDomain == ZeroValue("Domain")
zeroISP == ZeroValue("ISP")

----------------------------------------------------------------------------
(* IsZero: comparison of the whole value with the zero value of its type   *)
(* (== on comparable structs, reflect.DeepEqual on the two with a slice).  *)

Names_IsZero(n) == n = zeroNames

Enterprise_IsZero(e) == e = zeroEnterprise

City_IsZero(c) == c = zeroCity

Country_IsZero(c) == c = zeroCountry

AnonymousIP_IsZero(a) == a = zeroAnonymousIP

ASN_IsZero(a) == a = zeroASN

ConnectionType_IsZero(c) == c = zeroConnectionType

Domain_IsZero(d) == d = zeroDomain

ISP_IsZero(i) == i = zeroISP

----------------------------------------------------------------------------
(* HasData: the field-by-field predicates.                                 *)

\* Names.HasData with the last language field left out of the comparison.
Names_HasData_SkipsLast(n) ==
    \E l \in Langs \ {"SimplifiedChinese"} : n[l] # ""

Names_HasData(n) == n # zeroNames

Enterprise_hasContinentData(e) ==
    Names_HasData(e.Continent.Names) \/ e.Continent.Code # ""
        \/ e.Continent.GeoNameID # 0

Enterprise_hasCityData(e) ==
    Names_HasData(e.City.Names) \/ e.City.GeoNameID # 0
        \/ e.City.Confidence # 0

Enterprise_hasPostalData(e) ==
    e.Postal.Code # "" \/ e.Postal.Confidence # 0

Enterprise_hasSubdivisionsData(e) ==
    \E i \in 1..Len(e.Subdivisions.elems) :
        LET sub == e.Subdivisions.elems[i] IN
        Names_HasData(sub.Names) \/ sub.ISOCode # "" \/ sub.GeoNameID # 0
            \/ sub.Confidence # 0

Enterprise_hasRepresentedCountryData(e) ==
    Names_HasData(e.RepresentedCountry.Names)
        \/ e.RepresentedCountry.ISOCode # ""
        \/ e.RepresentedCountry.Type # ""
        \/ e.RepresentedCountry.GeoNameID # 0
        \/ e.RepresentedCountry.IsInEuropeanUnion

Enterprise_hasCountryData(e) ==
    Names_HasData(e.Country.Names) \/ e.Country.ISOCode # ""
        \/ e.Country.GeoNameID # 0 \/ e.Country.Confidence # 0
        \/ e.Country.IsInEuropeanUnion

Enterprise_hasRegisteredCountryData(e) ==
    Names_HasData(e.RegisteredCountry.Names)
        \/ e.RegisteredCountry.ISOCode # ""
        \/ e.RegisteredCountry.GeoNameID # 0
        \/ e.RegisteredCountry.Confidence # 0
        \/ e.RegisteredCountry.IsInEuropeanUnion

\* hasTraitsData with the last disjunct lost.
Enterprise_hasTraitsData_Short(e) ==
    e.Traits.AutonomousSystemOrganization # "" \/ e.Traits.ConnectionType # ""
        \/ e.Traits.Domain # "" \/ e.Traits.ISP # ""
        \/ e.Traits.MobileCountryCode # "" \/ e.Traits.MobileNetworkCode # ""
        \/ e.Traits.Organization # "" \/ e.Traits.UserType # ""
        \/ e.Traits.StaticIPScore # 0 \/ e.Traits.AutonomousSystemNumber # 0
        \/ e.Traits.IsAnycast

Enterprise_hasTraitsData(e) ==
    e.Traits.AutonomousSystemOrganization # "" \/ e.Traits.ConnectionType # ""
        \/ e.Traits.Domain # "" \/ e.Traits.ISP # ""
        \/ e.Traits.MobileCountryCode # "" \/ e.Traits.MobileNetworkCode # ""
        \/ e.Traits.Organization # "" \/ e.Traits.UserType # ""
        \/ e.Traits.StaticIPScore # 0 \/ e.Traits.AutonomousSystemNumber # 0
        \/ e.Traits.IsAnycast \/ e.Traits.IsLegitimateProxy

Enterprise_hasLocationData(e) ==
    e.Location.TimeZone # "" \/ e.Location.Latitude # 0
        \/ e.Location.Longitude # 0 \/ e.Location.MetroCode # 0
        \/ e.Location.AccuracyRadius # 0

Enterprise_HasData(e) ==
    Enterprise_hasContinentData(e) \/ Enterprise_hasCityData(e)
        \/ Enterprise_hasPostalData(e) \/ Enterprise_hasSubdivisionsData(e)
        \/ Enterprise_hasRepresentedCountryData(e)
        \/ Enterprise_hasCountryData(e)
        \/ Enterprise_hasRegisteredCountryData(e)
        \/ Enterprise_hasTraitsData(e) \/ Enterprise_hasLocationData(e)

City_hasTraitsData(c) == c.Traits.IsAnycast

City_hasPostalData(c) == c.Postal.Code # ""

City_hasContinentData(c) ==
    Names_HasData(c.Continent.Names) \/ c.Continent.Code # ""
        \/ c.Continent.GeoNameID # 0

City_hasCityData(c) ==
    Names_HasData(c.City.Names) \/ c.City.GeoNameID # 0

City_hasSubdivisionsData(c) ==
    \E i \in 1..Len(c.Subdivisions.elems) :
        LET sub == c.Subdivisions.elems[i] IN
        Names_HasData(sub.Names) \/ sub.ISOCode # "" \/ sub.GeoNameID # 0

City_hasRepresentedCountryData(c) ==
    Names_HasData(c.RepresentedCountry.Names)
        \/ c.RepresentedCountry.ISOCode # ""
        \/ c.RepresentedCountry.Type # ""
        \/ c.RepresentedCountry.GeoNameID # 0
        \/ c.RepresentedCountry.IsInEuropeanUnion

City_hasCountryData(c) ==
    Names_HasData(c.Country.Names) \/ c.Country.ISOCode # ""
        \/ c.Country.GeoNameID # 0 \/ c.Country.IsInEuropeanUnion

City_hasRegisteredCountryData(c) ==
    Names_HasData(c.RegisteredCountry.Names)
        \/ c.RegisteredCountry.ISOCode # ""
        \/ c.RegisteredCountry.GeoNameID # 0
        \/ c.RegisteredCountry.IsInEuropeanUnion

\* hasLocationData with one comparison turned round.
City_hasLocationData_Turned(c) ==
    c.Location.TimeZone # "" \/ c.Location.Latitude = 0
        \/ c.Location.Longitude # 0 \/ c.Location.MetroCode # 0
        \/ c.Location.AccuracyRadius # 0

City_hasLocationData(c) ==
    c.Location.TimeZone # "" \/ c.Location.Latitude # 0
        \/ c.Location.Longitude # 0 \/ c.Location.MetroCode # 0
        \/ c.Location.AccuracyRadius # 0

City_HasData(c) ==
    City_hasTraitsData(c) \/ City_hasPostalData(c) \/ City_hasContinentData(c)
        \/ City_hasCityData(c) \/ City_hasSubdivisionsData(c)
        \/ City_hasRepresentedCountryData(c) \/ City_hasCountryData(c)
        \/ City_hasRegisteredCountryData(c) \/ City_hasLocationData(c)

Country_HasData(c) ==
    Names_HasData(c.Continent.Names) \/ c.Continent.Code # ""
        \/ c.Continent.GeoNameID # 0
        \/ Names_HasData(c.RepresentedCountry.Names)
        \/ c.RepresentedCountry.ISOCode # ""
        \/ c.RepresentedCountry.Type # ""
        \/ c.RepresentedCountry.GeoNameID # 0
        \/ c.RepresentedCountry.IsInEuropeanUnion
        \/ Names_HasData(c.Country.Names) \/ c.Country.ISOCode # ""
        \/ c.Country.GeoNameID # 0 \/ c.Country.IsInEuropeanUnion
        \/ Names_HasData(c.RegisteredCountry.Names)
        \/ c.RegisteredCountry.ISOCode # ""
        \/ c.RegisteredCountry.GeoNameID # 0
        \/ c.RegisteredCountry.IsInEuropeanUnion
        \/ c.Traits.IsAnycast

AnonymousIP_HasData(a) ==
    a.IsAnonymous \/ a.IsAnonymousVPN \/ a.IsHostingProvider
        \/ a.IsPublicProxy \/ a.IsResidentialProxy \/ a.IsTorExitNode

ASN_HasData(a) ==
    a.AutonomousSystemNumber # 0 \/ a.AutonomousSystemOrganization # ""

ConnectionType_HasData(c) == c.ConnectionType # ""

Domain_HasData(d) == d.Domain # ""

ISP_HasData(i) ==
    i.AutonomousSystemOrganization # "" \/ i.ISP # ""
        \/ i.MobileCountryCode # "" \/ i.MobileNetworkCode # ""
        \/ i.Organization # "" \/ i.AutonomousSystemNumber # 0

\* v.IsZero() and v.HasData() for a value v of the kind's type.
IsZero(kind, v) ==
    CASE kind = "Names" -> Names_IsZero(v)
      [] kind = "Enterprise" -> Enterprise_IsZero(v)
      [] kind = "City" -> City_IsZero(v)
      [] kind = "Country" -> Country_IsZero(v)
      [] kind = "AnonymousIP" -> AnonymousIP_IsZero(v)
      [] kind = "ASN" -> ASN_IsZero(v)
      [] kind = "ConnectionType" -> ConnectionType_IsZero(v)
      [] kind = "Domain" -> Domain_IsZero(v)
      [] kind = "ISP" -> ISP_IsZero(v)

HasData(kind, v) ==
    CASE kind = "Names" -> Names_HasData(v)
      [] kind = "Enterprise" -> Enterprise_HasData(v)
      [] kind = "City" -> City_HasData(v)
      [] kind = "Country" -> Country_HasData(v)
      [] kind = "AnonymousIP" -> AnonymousIP_HasData(v)
      [] kind = "ASN" -> ASN_HasData(v)
      [] kind = "ConnectionType" -> ConnectionType_HasData(v)
      [] kind = "Domain" -> Domain_HasData(v)
      [] kind = "ISP" -> ISP_HasData(v)

----------------------------------------------------------------------------
(* The decode-sourced fields of each struct, read off the declarations:    *)
(* a map from the path of every field that carries a maxminddb tag to a    *)
(* non-zero value of the field's type.  Subdivisions is listed apart.      *)

Str(paths) == [p \in paths |-> "x"]

Num(paths) == [p \in paths |-> 1]

Flag(paths) == [p \in paths |-> TRUE]

NamesOf(g) == {<<g, "Names", l>> : l \in Langs}

NamesFields == Str({<<l>> : l \in Langs})

EnterpriseFields ==
    Str(NamesOf("Continent") \cup NamesOf("City")
        \cup NamesOf("RepresentedCountry") \cup NamesOf("Country")
        \cup NamesOf("RegisteredCountry")
        \cup {<<"Continent", "Code">>, <<"Postal", "Code">>,
              <<"RepresentedCountry", "ISOCode">>,
              <<"RepresentedCountry", "Type">>,
              <<"Country", "ISOCode">>, <<"RegisteredCountry", "ISOCode">>,
              <<"Traits", "AutonomousSystemOrganization">>,
              <<"Traits", "ConnectionType">>, <<"Traits", "Domain">>,
              <<"Traits", "ISP">>, <<"Traits", "MobileCountryCode">>,
              <<"Traits", "MobileNetworkCode">>,
              <<"Traits", "Organization">>, <<"Traits", "UserType">>,
              <<"Location", "TimeZone">>})
    @@ Num({<<"Continent", "GeoNameID">>, <<"City", "GeoNameID">>,
            <<"City", "Confidence">>, <<"Postal", "Confidence">>,
            <<"RepresentedCountry", "GeoNameID">>,
            <<"Country", "GeoNameID">>, <<"Country", "Confidence">>,
            <<"RegisteredCountry", "GeoNameID">>,
            <<"RegisteredCountry", "Confidence">>,
            <<"Traits", "StaticIPScore">>,
            <<"Traits", "AutonomousSystemNumber">>,
            <<"Location", "Latitude">>, <<"Location", "Longitude">>,
            <<"Location", "MetroCode">>, <<"Location", "AccuracyRadius">>})
    @@ Flag({<<"RepresentedCountry", "IsInEuropeanUnion">>,
             <<"Country", "IsInEuropeanUnion">>,
             <<"RegisteredCountry", "IsInEuropeanUnion">>,
             <<"Traits", "IsAnycast">>, <<"Traits", "IsLegitimateProxy">>})

CityFields ==
    Str(NamesOf("Continent") \cup NamesOf("City")
        \cup NamesOf("RepresentedCountry") \cup NamesOf("Country")
        \cup NamesOf("RegisteredCountry")
        \cup {<<"Postal", "Code">>, <<"Continent", "Code">>,
              <<"RepresentedCountry", "ISOCode">>,
              <<"RepresentedCountry", "Type">>,
              <<"Country", "ISOCode">>, <<"RegisteredCountry", "ISOCode">>,
              <<"Location", "TimeZone">>})
    @@ Num({<<"Continent", "GeoNameID">>, <<"City", "GeoNameID">>,
            <<"RepresentedCountry", "GeoNameID">>,
            <<"Country", "GeoNameID">>, <<"RegisteredCountry", "GeoNameID">>,
            <<"Location", "Latitude">>, <<"Location", "Longitude">>,
            <<"Location", "MetroCode">>, <<"Location", "AccuracyRadius">>})
    @@ Flag({<<"Traits", "IsAnycast">>,
             <<"RepresentedCountry", "IsInEuropeanUnion">>,
             <<"Country", "IsInEuropeanUnion">>,
             <<"RegisteredCountry", "IsInEuropeanUnion">>})

CountryFields ==
    Str(NamesOf("Continent") \cup NamesOf("RepresentedCountry")
        \cup NamesOf("Country") \cup NamesOf("RegisteredCountry")
        \cup {<<"Continent", "Code">>,
              <<"RepresentedCountry", "ISOCode">>,
              <<"RepresentedCountry", "Type">>,
              <<"Country", "ISOCode">>, <<"RegisteredCountry", "ISOCode">>})
    @@ Num({<<"Continent", "GeoNameID">>,
            <<"RepresentedCountry", "GeoNameID">>,
            <<"Country", "GeoNameID">>, <<"RegisteredCountry", "GeoNameID">>})
    @@ Flag({<<"Traits", "IsAnycast">>,
             <<"RepresentedCountry", "IsInEuropeanUnion">>,
             <<"Country", "IsInEuropeanUnion">>,
             <<"RegisteredCountry", "IsInEuropeanUnion">>})

AnonymousIPFields ==
    Flag({<<"IsAnonymous">>, <<"IsAnonymousVPN">>, <<"IsHostingProvider">>,
          <<"IsPublicProxy">>, <<"IsResidentialProxy">>, <<"IsTorExitNode">>})

ASNFields ==
    Str({<<"AutonomousSystemOrganization">>})
    @@ Num({<<"AutonomousSystemNumber">>})

ConnectionTypeFields == Str({<<"ConnectionType">>})

DomainFields == Str({<<"Domain">>})

ISPFields ==
    Str({<<"AutonomousSystemOrganization">>, <<"ISP">>,
         <<"MobileCountryCode">>, <<"MobileNetworkCode">>,
         <<"Organization">>})
    @@ Num({<<"AutonomousSystemNumber">>})

Fields(kind) ==
    CASE kind = "Names" -> NamesFields
      [] kind = "Enterprise" -> EnterpriseFields
      [] kind = "City" -> CityFields
      [] kind = "Country" -> CountryFields
      [] kind = "AnonymousIP" -> AnonymousIPFields
      [] kind = "ASN" -> ASNFields
      [] kind = "ConnectionType" -> ConnectionTypeFields
      [] kind = "Domain" -> DomainFields
      [] kind = "ISP" -> ISPFields

\* The kinds whose struct has a Subdivisions slice, and the scalar fields of
\* one element of it.
SliceKinds == {"Enterprise", "City"}

SubdivisionFields(kind) ==
    IF kind = "Enterprise"
    THEN {"ISOCode", "GeoNameID", "Confidence"}
    ELSE {"ISOCode", "GeoNameID"}

\* The value of the field at a path of one to three names.
FieldAt(v, path) ==
    IF Len(path) = 1 THEN v[path[1]]
    ELSE IF Len(path) = 2 THEN v[path[1]][path[2]]
    ELSE v[path[1]][path[2]][path[3]]

----------------------------------------------------------------------------
(* The enrichment fields.                                                  *)

\* Stamp with the second assignment forgotten.
Stamp_AddressOnly(kind, v, ip, net) ==
    IF kind \in NestedKinds
    THEN [v EXCEPT !.Traits.IPAddress = ip]
    ELSE [v EXCEPT !.IPAddress = ip]

\* v.IPAddress = ip; v.Network = net (under Traits for the nested kinds).
Stamp(kind, v, ip, net) ==
    IF kind \in NestedKinds
    THEN [v EXCEPT !.Traits.IPAddress = ip, !.Traits.Network = net]
    ELSE [v EXCEPT !.IPAddress = ip, !.Network = net]

IPAddressOf(kind, v) ==
    IF kind \in NestedKinds THEN v.Traits.IPAddress ELSE v.IPAddress

NetworkOf(kind, v) ==
    IF kind \in NestedKinds THEN v.Traits.Network ELSE v.Network

----------------------------------------------------------------------------
(* Errors                                                                  *)

NilErr == [type |-> "nil"]

\* The error with its two fields filled in the other order.
InvalidMethodError_Swapped(method, databaseType) ==
    [type |-> "InvalidMethodError", Method |-> databaseType,
     DatabaseType |-> method]

InvalidMethodError(method, databaseType) ==
    [type |-> "InvalidMethodError", Method |-> method,
     DatabaseType |-> databaseType]

UnknownDatabaseTypeError(databaseType) ==
    [type |-> "UnknownDatabaseTypeError", DatabaseType |-> databaseType]

\* The errors of the maxminddb engine: a failed open, a failed decode.
OpenError == [type |-> "maxminddb.OpenError"]

DecodeError == [type |-> "maxminddb.DecodeError"]

----------------------------------------------------------------------------
(* The maxminddb engine: a search tree that maps every address to the      *)
(* record of the network that covers it, or to no record.                  *)

Miss(head) ==
    [found |-> FALSE, prefix |-> MkPrefix(head), payload |-> EmptyMap,
     corrupt |-> FALSE]

Hit(head, pl, corrupt) ==
    [found |-> TRUE, prefix |-> MkPrefix(head), payload |-> pl,
     corrupt |-> corrupt]

zeroSubdivision ==
    [Names |-> zeroNames, ISOCode |-> "", GeoNameID |-> 0, Confidence |-> 0]

\* The data maps the databases of a type name are built from: the map with
\* no key and one map with data.
SampleMaps(name) ==
    CASE name \in {"GeoIP2-Enterprise", "DBIP-ISP (compat=Enterprise)",
                   "DBIP-Location-ISP (compat=Enterprise)"} ->
            {EmptyMap,
             <<"Country", "ISOCode">> :> "x" @@ <<"Traits", "ISP">> :> "x"}
      [] name \in {"GeoIP2-ISP", "GeoIP2-Precision-ISP"} ->
            {EmptyMap, <<"ISP">> :> "x"}
      [] name \in {"GeoLite2-ASN", "DBIP-ASN-Lite (compat=GeoLite2-ASN)",
                   "DBIP-ASN-Lite"} ->
            {EmptyMap, <<"AutonomousSystemNumber">> :> 1}
      [] name = "GeoIP2-Anonymous-IP" ->
            {EmptyMap, <<"IsAnonymous">> :> TRUE}
      [] name = "GeoIP2-Connection-Type" ->
            {EmptyMap, <<"ConnectionType">> :> "x"}
      [] name = "GeoIP2-Domain" ->
            {EmptyMap, <<"Domain">> :> "x"}
      [] OTHER ->
            {EmptyMap,
             <<"Country", "ISOCode">> :> "x"
                @@ <<"Subdivisions">> :> MkSlice(<<zeroSubdivision>>)}

\* The map of a record that the decoder fails on part-way.
CorruptMap(name) ==
    CHOOSE pl \in SampleMaps(name) : pl # EmptyMap

Leaves(name, head) ==
    {Miss(head)} \cup {Hit(head, pl, FALSE) : pl \in SampleMaps(name)}
        \cup {Hit(head, CorruptMap(name), TRUE)}

AddrsUnder(head) == {a \in Addrs : PrefixContains(MkPrefix(head), a)}

RECURSIVE Trees(_, _)
Trees(name, head) ==
    {[a \in AddrsUnder(head) |-> n] : n \in Leaves(name, head)}
        \cup (IF Len(head) < AddrBits
              THEN {l @@ r : l \in Trees(name, Append(head, 0)),
                             r \in Trees(name, Append(head, 1))}
              ELSE {})

\* reader.Lookup(ipAddress)
Lookup(m, ipAddress) == m.data[ipAddress]

\* result.Found()
Found(result) == result.found

\* result.Prefix()
Prefix(result) == result.prefix

\* result.Decode(&v), v a fresh variable of the kind's type: the value left
\* in v and the error.  A record that is not found leaves v untouched.
Decode(kind, result) ==
    IF ~result.found THEN [v |-> ZeroValue(kind), err |-> NilErr]
    ELSE IF result.corrupt
    THEN [v |-> DecodeInto(kind, result.payload), err |-> DecodeError]
    ELSE [v |-> DecodeInto(kind, result.payload), err |-> NilErr]

----------------------------------------------------------------------------
(* The Reader                                                              *)

isAnonymousIP == 1
\* The ASN bit colliding with the bit declared before it.
isASN_Clash == isAnonymousIP

isASN == 2
isCity == 4
isConnectionType == 8
isCountry == 16
isDomain == 32
\* The Enterprise bit colliding with the bit declared before it.
isEnterprise_Clash == isDomain

isEnterprise == 64
\* The ISP bit colliding with the ASN bit.
isISP_Clash == isASN

isISP == 128

RECURSIVE BitAnd(_, _)
BitAnd(a, b) ==
    IF a = 0 \/ b = 0 THEN 0
    ELSE (a % 2) * (b % 2) + 2 * BitAnd(a \div 2, b \div 2)

BitOr(a, b) == a + b - BitAnd(a, b)

KnownNames ==
    {"GeoIP2-Anonymous-IP",
     "DBIP-ASN-Lite (compat=GeoLite2-ASN)", "GeoLite2-ASN",
     "DBIP-City-Lite", "DBIP-Country-Lite", "DBIP-Country",
     "DBIP-Location (compat=City)", "GeoLite2-City", "GeoIP2-City",
     "GeoIP2-City-Africa", "GeoIP2-City-Asia-Pacific", "GeoIP2-City-Europe",
     "GeoIP2-City-North-America", "GeoIP2-City-South-America",
     "GeoIP2-Precision-City", "GeoLite2-Country", "GeoIP2-Country",
     "GeoIP2-Connection-Type", "GeoIP2-Domain",
     "DBIP-ISP (compat=Enterprise)", "DBIP-Location-ISP (compat=Enterprise)",
     "GeoIP2-Enterprise", "GeoIP2-ISP", "GeoIP2-Precision-ISP"}

\* Type names that the table does not list.
OtherNames == {"geoip2-city", "DBIP-ASN-Lite", "GeoIP2-City-Shield"}

TypeNames == KnownNames \cup OtherNames

\* The table with a lenient match: a name that only begins like a listed one
\* is taken for it.
getDBType_Fuzzy(m) ==
    LET t == m.Metadata.DatabaseType IN
    CASE t \in {"DBIP-ASN-Lite", "DBIP-ASN-Lite (compat=GeoLite2-ASN)",
                "GeoLite2-ASN"} ->
            [dbType |-> isASN, err |-> NilErr]
      [] OTHER ->
            [dbType |-> 0, err |-> UnknownDatabaseTypeError(t)]

getDBType(m) ==
    LET t == m.Metadata.DatabaseType IN
    CASE t = "GeoIP2-Anonymous-IP" ->
            [dbType |-> isAnonymousIP, err |-> NilErr]
      [] t \in {"DBIP-ASN-Lite (compat=GeoLite2-ASN)", "GeoLite2-ASN"} ->
            [dbType |-> isASN, err |-> NilErr]
      [] t \in {"DBIP-City-Lite", "DBIP-Country-Lite", "DBIP-Country",
                "DBIP-Location (compat=City)", "GeoLite2-City", "GeoIP2-City",
                "GeoIP2-City-Africa", "GeoIP2-City-Asia-Pacific",
                "GeoIP2-City-Europe", "GeoIP2-City-North-America",
                "GeoIP2-City-South-America", "GeoIP2-Precision-City",
                "GeoLite2-Country", "GeoIP2-Country"} ->
            [dbType |-> BitOr(isCity, isCountry), err |-> NilErr]
      [] t = "GeoIP2-Connection-Type" ->
            [dbType |-> isConnectionType, err |-> NilErr]
      [] t = "GeoIP2-Domain" ->
            [dbType |-> isDomain, err |-> NilErr]
      [] t \in {"DBIP-ISP (compat=Enterprise)",
                "DBIP-Location-ISP (compat=Enterprise)",
                "GeoIP2-Enterprise"} ->
            [dbType |-> BitOr(BitOr(isEnterprise, isCity), isCountry),
             err |-> NilErr]
      [] t \in {"GeoIP2-ISP", "GeoIP2-Precision-ISP"} ->
            [dbType |-> BitOr(isISP, isASN), err |-> NilErr]
      [] OTHER ->
            [dbType |-> 0, err |-> UnknownDatabaseTypeError(t)]

\* A *Reader: nil, or a Reader whose mmdbReader points to the engine mmdb.
NilReader == [nil |-> TRUE, databaseType |-> 0]

MkReader(dbType) == [nil |-> FALSE, databaseType |-> dbType]

\* A pointer to a result struct.
NilPtr == [nil |-> TRUE, v |-> EmptyMap]

Ptr(v) == [nil |-> FALSE, v |-> v]

\* What a call returns, with the engine operations it performed, in order.
Return(rec, err, calls) == [rec |-> rec, err |-> err, calls |-> calls]

\* Metadata handing out an empty struct in place of the engine's.
Reader_Metadata_Blank(r, m) == [DatabaseType |-> ""]

\* r.Metadata()
Reader_Metadata(r, m) == m.Metadata

\* The query lines with the Found test lost: the stamp is unconditional.
lookupDecodeStamp_Always(kind, m, ipAddress) ==
    LET result == Lookup(m, ipAddress)
        dec == Decode(kind, result)
    IN  IF dec.err # NilErr
        THEN Return(Ptr(dec.v), dec.err, <<"Lookup", "Decode">>)
        ELSE Return(Ptr(Stamp(kind, dec.v, ipAddress, Prefix(result))),
                    NilErr, <<"Lookup", "Decode", "Found", "Prefix">>)

\* The query lines with the stamp lost.
lookupDecodeStamp_Never(kind, m, ipAddress) ==
    LET result == Lookup(m, ipAddress)
        dec == Decode(kind, result)
    IN  IF dec.err # NilErr
        THEN Return(Ptr(dec.v), dec.err, <<"Lookup", "Decode">>)
        ELSE Return(Ptr(dec.v), NilErr, <<"Lookup", "Decode", "Found">>)

\* The query lines with the stamp moved ahead of the error check.
lookupDecodeStamp_StampFirst(kind, m, ipAddress) ==
    LET result == Lookup(m, ipAddress)
        dec == Decode(kind, result)
        v == IF Found(result)
             THEN Stamp(kind, dec.v, ipAddress, Prefix(result))
             ELSE dec.v
    IN  Return(Ptr(v), dec.err, <<"Lookup", "Decode", "Found", "Prefix">>)

\* The query lines with one retry of Lookup and Decode after a failed Decode.
lookupDecodeStamp_Retry(kind, m, ipAddress) ==
    LET result == Lookup(m, ipAddress)
        dec == Decode(kind, result)
    IN  IF dec.err # NilErr
        THEN Return(Ptr(dec.v), dec.err,
                    <<"Lookup", "Decode", "Lookup", "Decode">>)
        ELSE IF Found(result)
        THEN Return(Ptr(Stamp(kind, dec.v, ipAddress, Prefix(result))),
                    NilErr, <<"Lookup", "Decode", "Found", "Prefix">>)
        ELSE Return(Ptr(dec.v), NilErr, <<"Lookup", "Decode", "Found">>)

\* The query lines handing out no record when Decode fails.
lookupDecodeStamp_NilOnError(kind, m, ipAddress) ==
    LET result == Lookup(m, ipAddress)
        dec == Decode(kind, result)
    IN  IF dec.err # NilErr
        THEN Return(NilPtr, dec.err, <<"Lookup", "Decode">>)
        ELSE IF Found(result)
        THEN Return(Ptr(Stamp(kind, dec.v, ipAddress, Prefix(result))),
                    NilErr, <<"Lookup", "Decode", "Found", "Prefix">>)
        ELSE Return(Ptr(dec.v), NilErr, <<"Lookup", "Decode", "Found">>)

\* The lines every query method runs once its capability check has passed:
\* Lookup, Decode into a fresh struct, and on a found record the stamp.
lookupDecodeStamp(kind, m, ipAddress) ==
    LET result == Lookup(m, ipAddress)
        dec == Decode(kind, result)
    IN  IF dec.err # NilErr
        THEN Return(Ptr(dec.v), dec.err, <<"Lookup", "Decode">>)
        ELSE IF Found(result)
        THEN Return(Ptr(Stamp(kind, dec.v, ipAddress, Prefix(result))),
                    NilErr, <<"Lookup", "Decode", "Found", "Prefix">>)
        ELSE Return(Ptr(dec.v), NilErr, <<"Lookup", "Decode", "Found">>)

\* Enterprise with the capability check lost.
Reader_Enterprise_Unchecked(r, m, ipAddress) ==
    lookupDecodeStamp("Enterprise", m, ipAddress)

Reader_Enterprise(r, m, ipAddress) ==
    IF BitAnd(isEnterprise, r.databaseType) = 0
    THEN Return(NilPtr,
                InvalidMethodError("Enterprise",
                                   Reader_Metadata(r, m).DatabaseType), <<>>)
    ELSE lookupDecodeStamp("Enterprise", m, ipAddress)

\* City limited to the databases whose mask is the City bit alone.
Reader_City_Strict(r, m, ipAddress) ==
    IF r.databaseType # isCity
    THEN Return(NilPtr,
                InvalidMethodError("City",
                                   Reader_Metadata(r, m).DatabaseType), <<>>)
    ELSE lookupDecodeStamp("City", m, ipAddress)

Reader_City(r, m, ipAddress) ==
    IF BitAnd(isCity, r.databaseType) = 0
    THEN Return(NilPtr,
                InvalidMethodError("City",
                                   Reader_Metadata(r, m).DatabaseType), <<>>)
    ELSE lookupDecodeStamp("City", m, ipAddress)

\* Country with the capability check lost.
Reader_Country_Unchecked(r, m, ipAddress) ==
    lookupDecodeStamp("Country", m, ipAddress)

Reader_Country(r, m, ipAddress) ==
    IF BitAnd(isCountry, r.databaseType) = 0
    THEN Return(NilPtr,
                InvalidMethodError("Country",
                                   Reader_Metadata(r, m).DatabaseType), <<>>)
    ELSE lookupDecodeStamp("Country", m, ipAddress)

Reader_AnonymousIP(r, m, ipAddress) ==
    IF BitAnd(isAnonymousIP, r.databaseType) = 0
    THEN Return(NilPtr,
                InvalidMethodError("AnonymousIP",
                                   Reader_Metadata(r, m).DatabaseType), <<>>)
    ELSE lookupDecodeStamp("AnonymousIP", m, ipAddress)

\* ASN with one record variable shared by its calls: a call that follows
\* another ASN call hands out what that call returned.
Reader_ASN_Reused(r, m, ipAddress) ==
    IF BitAnd(isASN, r.databaseType) = 0
    THEN Return(NilPtr,
                InvalidMethodError("ASN",
                                   Reader_Metadata(r, m).DatabaseType), <<>>)
    ELSE IF ret.method = "ASN"
    THEN Return(ret.rec, ret.err, ret.calls)
    ELSE lookupDecodeStamp("ASN", m, ipAddress)

Reader_ASN(r, m, ipAddress) ==
    IF BitAnd(isASN, r.databaseType) = 0
    THEN Return(NilPtr,
                InvalidMethodError("ASN",
                                   Reader_Metadata(r, m).DatabaseType), <<>>)
    ELSE lookupDecodeStamp("ASN", m, ipAddress)

Reader_ConnectionType(r, m, ipAddress) ==
    IF BitAnd(isConnectionType, r.databaseType) = 0
    THEN Return(NilPtr,
                InvalidMethodError("ConnectionType",
                                   Reader_Metadata(r, m).DatabaseType), <<>>)
    ELSE lookupDecodeStamp("ConnectionType", m, ipAddress)

Reader_Domain(r, m, ipAddress) ==
    IF BitAnd(isDomain, r.databaseType) = 0
    THEN Return(NilPtr,
                InvalidMethodError("Domain",
                                   Reader_Metadata(r, m).DatabaseType), <<>>)
    ELSE lookupDecodeStamp("Domain", m, ipAddress)

\* ISP with the capability check lost.
Reader_ISP_Unchecked(r, m, ipAddress) ==
    lookupDecodeStamp("ISP", m, ipAddress)

Reader_ISP(r, m, ipAddress) ==
    IF BitAnd(isISP, r.databaseType) = 0
    THEN Return(NilPtr,
                InvalidMethodError("ISP",
                                   Reader_Metadata(r, m).DatabaseType), <<>>)
    ELSE lookupDecodeStamp("ISP", m, ipAddress)

----------------------------------------------------------------------------
(* The Reader as a state machine: Open or FromBytes once, then any number  *)
(* of query and Metadata calls, then Close.                                *)

NoEngine ==
    [Metadata |-> [DatabaseType |-> ""], data |-> EmptyMap, closed |-> FALSE]

NoMetadata == [DatabaseType |-> ""]

NoCall ==
    [method |-> "", ipAddress |-> ZeroAddr, rec |-> NilPtr, err |-> NilErr,
     calls |-> <<>>, meta |-> NoMetadata]

Called(method, ipAddress, r) ==
    [method |-> method, ipAddress |-> ipAddress, rec |-> r.rec,
     err |-> r.err, calls |-> r.calls, meta |-> NoMetadata]

NoVal == [kind |-> "Names", v |-> zeroNames]

NoOut == [fn |-> "", result |-> FALSE]

\* The goroutines that share the Reader.
Callers == {"c1", "c2"}

\* A caller that has not called: its locals hold nothing.
NoProc ==
    [pc |-> "idle", method |-> "", ipAddress |-> ZeroAddr,
     result |-> Miss(<<>>), ptr |-> 0, err |-> NilErr]

NoProcs == [c \in Callers |-> NoProc]

Init ==
    /\ reader = NilReader
    /\ openErr = NilErr
    /\ mmdb = NoEngine
    /\ ret = NoCall
    /\ val = NoVal
    /\ out = NoOut
    /\ first = NoCall
    /\ proc = NoProcs
    /\ heap = <<>>

\* Open and FromBytes with the error check lost: the table is asked about
\* whatever the engine handed back.
openWith_Unchecked(opened, engine) ==
    LET handle == IF opened THEN engine ELSE NoEngine
        t == getDBType(handle)
    IN  /\ reader' = MkReader(t.dbType)
        /\ openErr' = t.err
        /\ mmdb' = handle

\* What Open and FromBytes do once the engine has tried to open the
\* database: opened says whether it could, engine is what it opened.
openWith(opened, engine) ==
    IF ~opened
    THEN /\ reader' = NilReader
         /\ openErr' = OpenError
         /\ mmdb' = NoEngine
    ELSE LET t == getDBType(engine) IN
         /\ reader' = MkReader(t.dbType)
         /\ openErr' = t.err
         /\ mmdb' = engine

NotOpenedYet == reader.nil /\ openErr = NilErr

Open ==
    /\ NotOpenedYet
    /\ \E name \in TypeNames, opened \in BOOLEAN :
         \E db \in Trees(name, <<>>) :
            openWith(opened, [Metadata |-> [DatabaseType |-> name],
                              data |-> db, closed |-> FALSE])
    /\ UNCHANGED <<ret, val, out, first, proc, heap>>

FromBytes ==
    /\ NotOpenedYet
    /\ \E name \in TypeNames, opened \in BOOLEAN :
         \E db \in Trees(name, <<>>) :
            openWith(opened, [Metadata |-> [DatabaseType |-> name],
                              data |-> db, closed |-> FALSE])
    /\ UNCHANGED <<ret, val, out, first, proc, heap>>

\* A method may be called on a Reader that exists and is not closed.
Usable == ~reader.nil /\ ~mmdb.closed

Enterprise ==
    /\ Usable
    /\ \E ipAddress \in Addrs :
         ret' = Called("Enterprise", ipAddress,
                       Reader_Enterprise(reader, mmdb, ipAddress))
    /\ UNCHANGED <<reader, openErr, mmdb, val, out, first, proc, heap>>

City ==
    /\ Usable
    /\ \E ipAddress \in Addrs :
         ret' = Called("City", ipAddress,
                       Reader_City(reader, mmdb, ipAddress))
    /\ UNCHANGED <<reader, openErr, mmdb, val, out, first, proc, heap>>

Country ==
    /\ Usable
    /\ \E ipAddress \in Addrs :
         ret' = Called("Country", ipAddress,
                       Reader_Country(reader, mmdb, ipAddress))
    /\ UNCHANGED <<reader, openErr, mmdb, val, out, first, proc, heap>>

AnonymousIP ==
    /\ Usable
    /\ \E ipAddress \in Addrs :
         ret' = Called("AnonymousIP", ipAddress,
                       Reader_AnonymousIP(reader, mmdb, ipAddress))
    /\ UNCHANGED <<reader, openErr, mmdb, val, out, first, proc, heap>>

ASN ==
    /\ Usable
    /\ \E ipAddress \in Addrs :
         ret' = Called("ASN", ipAddress,
                       Reader_ASN(reader, mmdb, ipAddress))
    /\ UNCHANGED <<reader, openErr, mmdb, val, out, first, proc, heap>>

ConnectionType ==
    /\ Usable
    /\ \E ipAddress \in Addrs :
         ret' = Called("ConnectionType", ipAddress,
                       Reader_ConnectionType(reader, mmdb, ipAddress))
    /\ UNCHANGED <<reader, openErr, mmdb, val, out, first, proc, heap>>

Domain ==
    /\ Usable
    /\ \E ipAddress \in Addrs :
         ret' = Called("Domain", ipAddress,
                       Reader_Domain(reader, mmdb, ipAddress))
    /\ UNCHANGED <<reader, openErr, mmdb, val, out, first, proc, heap>>

ISP ==
    /\ Usable
    /\ \E ipAddress \in Addrs :
         ret' = Called("ISP", ipAddress,
                       Reader_ISP(reader, mmdb, ipAddress))
    /\ UNCHANGED <<reader, openErr, mmdb, val, out, first, proc, heap>>

Metadata ==
    /\ Usable
    /\ ret' = [NoCall EXCEPT !.method = "Metadata",
                             !.meta = Reader_Metadata(reader, mmdb)]
    /\ UNCHANGED <<reader, openErr, mmdb, val, out, first, proc, heap>>

\* Close that also clears the capability mask of the Reader.
Close_ClearsMask ==
    /\ Usable
    /\ mmdb' = [mmdb EXCEPT !.closed = TRUE]
    /\ reader' = MkReader(0)
    /\ ret' = [NoCall EXCEPT !.method = "Close"]
    /\ UNCHANGED <<openErr, val, out, first, proc, heap>>

Close ==
    /\ Usable
    /\ mmdb' = [mmdb EXCEPT !.closed = TRUE]
    /\ ret' = [NoCall EXCEPT !.method = "Close"]
    /\ UNCHANGED <<reader, openErr, val, out, first, proc, heap>>

Next ==
    \/ Open
    \/ FromBytes
    \/ Enterprise
    \/ City
    \/ Country
    \/ AnonymousIP
    \/ ASN
    \/ ConnectionType
    \/ Domain
    \/ ISP
    \/ Metadata
    \/ Close

Spec == Init /\ [][Next]_vars

----------------------------------------------------------------------------
(* The oracles on their own: a caller holds a value of one of the nine     *)
(* types and applies IsZero or HasData to it.                              *)

SubdivisionElems ==
    {zeroSubdivision}
        \cup {[zeroSubdivision EXCEPT !.Names[l] = "x"] : l \in Langs}
        \cup {[zeroSubdivision EXCEPT !.ISOCode = "x"],
              [zeroSubdivision EXCEPT !.GeoNameID = 1],
              [zeroSubdivision EXCEPT !.Confidence = 1]}

Slices ==
    {NilSlice}
        \cup UNION {{MkSlice(s) : s \in [1..n -> SubdivisionElems]} :
                      n \in 0..MaxSubdivisions}

\* The data maps of a kind: none of its fields, each one alone, all of
\* them, and every Subdivisions slice alone.
Maps(kind) ==
    LET F == Fields(kind) IN
    {EmptyMap, F} \cup {[q \in {p} |-> F[p]] : p \in DOMAIN F}
        \cup (IF kind \in SliceKinds
              THEN {<<"Subdivisions">> :> s : s \in Slices}
              ELSE {})

DecodeLiteral(kind, pl) ==
    IF kind = "Names" THEN [l \in Langs |-> Get(pl, <<l>>, "")]
    ELSE DecodeInto(kind, pl)

SomeAddr == CHOOSE a \in Addrs : TRUE

SomePrefix == MkPrefix(<<>>)

\* The values a caller holds: a struct of each kind with the fields of a
\* data map set, and its enrichment fields set or not.
Values(kind) ==
    IF kind = "Names"
    THEN {[kind |-> kind, v |-> DecodeLiteral(kind, pl)] : pl \in Maps(kind)}
    ELSE {[kind |-> kind,
           v |-> Stamp(kind, DecodeLiteral(kind, pl), ip, net)] :
             pl \in Maps(kind), ip \in {ZeroAddr, SomeAddr},
             net \in {ZeroPrefix, SomePrefix}}

OracleInit ==
    /\ reader = NilReader
    /\ openErr = NilErr
    /\ mmdb = NoEngine
    /\ ret = NoCall
    /\ val \in UNION {Values(kind) : kind \in Kinds \cup {"Names"}}
    /\ out = NoOut
    /\ first = NoCall
    /\ proc = NoProcs
    /\ heap = <<>>

CallIsZero ==
    /\ out' = [fn |-> "IsZero", result |-> IsZero(val.kind, val.v)]
    /\ UNCHANGED <<reader, openErr, mmdb, ret, val, first, proc, heap>>

CallHasData ==
    /\ out' = [fn |-> "HasData", result |-> HasData(val.kind, val.v)]
    /\ UNCHANGED <<reader, openErr, mmdb, ret, val, first, proc, heap>>

OracleNext ==
    \/ CallIsZero
    \/ CallHasData

OracleSpec == OracleInit /\ [][OracleNext]_vars

----------------------------------------------------------------------------
(* Repeated calls: a Reader that Open returned with no error, callers that *)
(* call its query methods and Metadata in any order, and one of them that  *)
(* keeps what a call returned to compare it with a later call.             *)

\* One type name of each row of the table.
ReplayNames ==
    {"GeoIP2-Anonymous-IP", "GeoLite2-ASN", "GeoIP2-City",
     "GeoIP2-Connection-Type", "GeoIP2-Domain", "GeoIP2-Enterprise",
     "GeoIP2-ISP"}

\* The databases whose networks are no longer than one bit.
ReplayTrees(name) ==
    {db \in Trees(name, <<>>) :
        \A a, b \in Addrs : a.ip[1] = b.ip[1] => db[a] = db[b]}

ReplayInit ==
    /\ \E name \in ReplayNames :
         \E db \in ReplayTrees(name) :
            LET engine == [Metadata |-> [DatabaseType |-> name],
                           data |-> db, closed |-> FALSE]
            IN  /\ reader = MkReader(getDBType(engine).dbType)
                /\ openErr = getDBType(engine).err
                /\ mmdb = engine
    /\ ret = NoCall
    /\ val = NoVal
    /\ out = NoOut
    /\ first = NoCall
    /\ proc = NoProcs
    /\ heap = <<>>

\* The caller keeps the return values of the query call just made.
Remember ==
    /\ ret.method \in Kinds
    /\ first = NoCall
    /\ first' = ret
    /\ UNCHANGED <<reader, openErr, mmdb, ret, val, out, proc, heap>>

ReplayNext ==
    \/ Enterprise
    \/ City
    \/ Country
    \/ AnonymousIP
    \/ ASN
    \/ ConnectionType
    \/ Domain
    \/ ISP
    \/ Metadata
    \/ Remember

ReplaySpec == ReplayInit /\ [][ReplayNext]_vars

----------------------------------------------------------------------------
(* The claims                                                              *)

\* An engine whose tree holds no record: every address is a miss.
NoEngineMiss ==
    [Metadata |-> NoMetadata, data |-> [a \in Addrs |-> Miss(<<>>)],
     closed |-> FALSE]

\* The capability bit of a query kind.
CapabilityBit(kind) ==
    CASE kind = "AnonymousIP" -> isAnonymousIP
      [] kind = "ASN" -> isASN
      [] kind = "City" -> isCity
      [] kind = "ConnectionType" -> isConnectionType
      [] kind = "Country" -> isCountry
      [] kind = "Domain" -> isDomain
      [] kind = "Enterprise" -> isEnterprise
      [] kind = "ISP" -> isISP

Has(seq, x) == \E i \in 1..Len(seq) : seq[i] = x

\* The last call was a query method; the mask grants it or not.
Queried == ret.method \in Kinds

Granted == BitAnd(CapabilityBit(ret.method), reader.databaseType) # 0

\* What the engine holds for the address of the last call.
Node == Lookup(mmdb, ret.ipAddress)

\* The last call was a granted query of an address with no record.
QueriedMiss == Queried /\ Granted /\ ~Node.found

\* The last call was a granted query of an address with a record that
\* decodes.
QueriedHit == Queried /\ Granted /\ Node.found /\ ~Node.corrupt

\* ... and the record holds no key of a field of the queried struct.
QueriedEmptyHit ==
    /\ QueriedHit
    /\ DOMAIN Node.payload \cap DOMAIN Fields(ret.method) = {}
    /\ <<"Subdivisions">> \notin DOMAIN Node.payload

\* The value with its enrichment fields cleared.
Unstamped(kind, v) ==
    IF kind = "Names" THEN v ELSE Stamp(kind, v, ZeroAddr, ZeroPrefix)

\* Some decode-sourced field of the value differs from its zero value.
SomeFieldSet(kind, v) ==
    \/ \E p \in DOMAIN Fields(kind) :
          FieldAt(v, p) # FieldAt(DecodeLiteral(kind, EmptyMap), p)
    \/ /\ kind \in SliceKinds
       /\ \E i \in 1..Len(v.Subdivisions.elems) :
             LET sub == v.Subdivisions.elems[i] IN
             \/ \E l \in Langs : sub.Names[l] # ""
             \/ \E f \in SubdivisionFields(kind) : sub[f] # zeroSubdivision[f]

\* C1: a query method whose bit the mask lacks returns InvalidMethodError and
\* no record, and performs no engine Lookup and no Decode.
C1_UngrantedNeverReachesEngine ==
    (Queried /\ ~Granted) =>
        /\ ret.err.type = "InvalidMethodError"
        /\ ret.rec.nil
        /\ ~Has(ret.calls, "Lookup")
        /\ ~Has(ret.calls, "Decode")

C1_Witness ==
    /\ Queried /\ ~Granted
    /\ ret.err.type = "InvalidMethodError"
    /\ openErr = NilErr

\* C2: a granted query of an address the engine has no record for returns a
\* nil error and a record with every field zero, IPAddress and Network too.
C2_MissReturnsZeroRecord ==
    QueriedMiss =>
        /\ ret.err = NilErr
        /\ ~ret.rec.nil
        /\ IPAddressOf(ret.method, ret.rec.v) = ZeroAddr
        /\ NetworkOf(ret.method, ret.rec.v) = ZeroPrefix
        /\ ~SomeFieldSet(ret.method, ret.rec.v)
        /\ (ret.method \in SliceKinds => ret.rec.v.Subdivisions = NilSlice)

C2_Witness == QueriedMiss /\ ret.err = NilErr /\ ~ret.rec.nil

\* C3: a granted query of an address with a record that decodes returns a
\* record whose IPAddress is the queried address and whose Network is the
\* prefix the lookup reported, a valid prefix that contains the address.
C3_HitIsStamped ==
    QueriedHit =>
        /\ ret.err = NilErr
        /\ ~ret.rec.nil
        /\ IPAddressOf(ret.method, ret.rec.v) = ret.ipAddress
        /\ NetworkOf(ret.method, ret.rec.v) = Prefix(Node)
        /\ PrefixIsValid(NetworkOf(ret.method, ret.rec.v))
        /\ PrefixContains(NetworkOf(ret.method, ret.rec.v), ret.ipAddress)

C3_Witness ==
    /\ QueriedHit
    /\ IPAddressOf(ret.method, ret.rec.v) = ret.ipAddress
    /\ NetworkOf(ret.method, ret.rec.v).bitsPlusOne <= AddrBits

\* C4: the zero value of each of the nine types reports no data (IsZero
\* true, HasData false), and so does the record a query returns for an
\* address with no record.
C4_ZeroValueHasNoData ==
    /\ \A kind \in Kinds \cup {"Names"} :
          /\ IsZero(kind, DecodeLiteral(kind, EmptyMap))
          /\ ~HasData(kind, DecodeLiteral(kind, EmptyMap))
    /\ QueriedMiss =>
          /\ IsZero(ret.method, ret.rec.v)
          /\ ~HasData(ret.method, ret.rec.v)

C4_Witness ==
    QueriedMiss /\ ~ret.rec.nil /\ IsZero(ret.method, ret.rec.v)

\* C5: the verdict of IsZero and of HasData on a record is the verdict on the
\* same record with IPAddress and Network cleared; a record with nothing but
\* IPAddress and Network set reports no data.
C5_VerdictIgnoresEnrichment ==
    /\ out.fn = "IsZero" =>
          out.result = IsZero(val.kind, Unstamped(val.kind, val.v))
    /\ out.fn = "HasData" =>
          out.result = HasData(val.kind, Unstamped(val.kind, val.v))

\* C6: on every record a query returns with a nil error, IsZero is the
\* negation of HasData.
C6_IsZeroNegatesHasData ==
    (Queried /\ Granted /\ ret.err = NilErr) =>
        IsZero(ret.method, ret.rec.v) = ~HasData(ret.method, ret.rec.v)

\* C7 as claimed: the record returned for an address whose record decodes to
\* no data is the record returned for a miss, the all-zero record.
C7_EmptyHitIsZeroRecord ==
    QueriedEmptyHit =>
        ret.rec.v = lookupDecodeStamp(ret.method, NoEngineMiss, ret.ipAddress).rec.v

\* C7 as amended: the record returned for an address whose record decodes to
\* no data equals the record returned for a miss in every decode-sourced
\* field and reports HasData false; it differs from it in IPAddress and
\* Network, which hold the queried address and the prefix of the lookup.
C7_EmptyHitIsZeroButStamped ==
    QueriedEmptyHit =>
        /\ Unstamped(ret.method, ret.rec.v) =
              lookupDecodeStamp(ret.method, NoEngineMiss, ret.ipAddress).rec.v
        /\ ~HasData(ret.method, ret.rec.v)
        /\ IPAddressOf(ret.method, ret.rec.v) = ret.ipAddress
        /\ NetworkOf(ret.method, ret.rec.v) = Prefix(Node)
        /\ ret.rec.v # lookupDecodeStamp(ret.method, NoEngineMiss, ret.ipAddress).rec.v

C7_Witness == QueriedEmptyHit /\ ret.err = NilErr /\ ~ret.rec.nil

\* A City or Enterprise value with nothing set outside Subdivisions.
OnlySubdivisions ==
    /\ val.kind \in SliceKinds
    /\ [val.v EXCEPT !.Subdivisions = NilSlice] =
          DecodeLiteral(val.kind, EmptyMap)

SubdivisionsHaveData ==
    \E i \in 1..Len(val.v.Subdivisions.elems) :
        LET sub == val.v.Subdivisions.elems[i] IN
        \/ \E l \in Langs : sub.Names[l] # ""
        \/ \E f \in SubdivisionFields(val.kind) : sub[f] # zeroSubdivision[f]

\* C8: Subdivisions counts as data if and only if some element of it has a
\* non-zero field: a nil slice, an empty slice and a slice of zero elements
\* count as no data, for HasData and for IsZero alike.
C8_SubdivisionsVerdict ==
    OnlySubdivisions =>
        /\ out.fn = "HasData" => out.result = SubdivisionsHaveData
        /\ out.fn = "IsZero" => out.result = ~SubdivisionsHaveData

\* C9: a Names value has data (HasData true, IsZero false) if and only if
\* one of its eight language fields is a non-empty string.
C9_NamesVerdict ==
    val.kind = "Names" =>
        /\ out.fn = "HasData" =>
              out.result = (\E l \in Langs : val.v[l] # "")
        /\ out.fn = "IsZero" =>
              out.result = ~(\E l \in Langs : val.v[l] # "")

C9_Witness ==
    /\ val.kind = "Names"
    /\ val.v.SimplifiedChinese # "" /\ val.v.English = ""
    /\ out.fn = "HasData" /\ out.result

DeclaredName == mmdb.Metadata.DatabaseType

\* Open or FromBytes got an engine: the Reader exists.
Opened == ~reader.nil

\* C11: opening a database whose declared type name is not a name of the
\* table yields UnknownDatabaseTypeError carrying exactly that name, and no
\* capability; a name that only resembles a listed one is not matched.
C11_UnlistedNameIsUnknown ==
    (Opened /\ DeclaredName \notin KnownNames) =>
        /\ openErr = UnknownDatabaseTypeError(DeclaredName)
        /\ reader.databaseType = 0

C11_Witness ==
    /\ Opened
    /\ DeclaredName = "DBIP-ASN-Lite"
    /\ openErr = UnknownDatabaseTypeError("DBIP-ASN-Lite")

\* The Country-flavored and City-flavored type names.
CountryAndCityNames ==
    {"GeoIP2-Country", "GeoLite2-Country", "DBIP-Country", "DBIP-Country-Lite",
     "GeoIP2-City", "GeoIP2-City-Africa", "GeoIP2-City-Asia-Pacific",
     "GeoIP2-City-Europe", "GeoIP2-City-North-America",
     "GeoIP2-City-South-America", "GeoLite2-City", "GeoIP2-Precision-City",
     "DBIP-City-Lite", "DBIP-Location (compat=City)"}

\* The mask grants the kind.
Grants(mask, kind) == BitAnd(CapabilityBit(kind), mask) # 0

\* The last call was rejected for lack of capability.
Rejected == ret.err.type = "InvalidMethodError"

\* C12: a Country-flavored or City-flavored type name resolves, with no
\* error, to a mask that grants City and Country, and neither the City nor
\* the Country method of such a Reader returns InvalidMethodError.
C12_CountryAndCityGrantBoth ==
    (Opened /\ DeclaredName \in CountryAndCityNames) =>
        /\ openErr = NilErr
        /\ Grants(reader.databaseType, "City")
        /\ Grants(reader.databaseType, "Country")
        /\ ret.method \in {"City", "Country"} => ~Rejected

C12_Witness ==
    /\ Opened
    /\ DeclaredName = "DBIP-Country-Lite"
    /\ ret.method = "City" /\ ret.err = NilErr /\ ~ret.rec.nil
    /\ Node.found

\* The Enterprise-flavored type names.
EnterpriseNames ==
    {"GeoIP2-Enterprise", "DBIP-ISP (compat=Enterprise)",
     "DBIP-Location-ISP (compat=Enterprise)"}

\* C13: an Enterprise-flavored type name resolves, with no error, to exactly
\* the mask Enterprise | City | Country: Enterprise, City and Country are
\* permitted and each of the other five methods returns InvalidMethodError.
C13_EnterpriseMask ==
    (Opened /\ DeclaredName \in EnterpriseNames) =>
        /\ openErr = NilErr
        /\ reader.databaseType = BitOr(BitOr(isEnterprise, isCity), isCountry)
        /\ \A kind \in Kinds :
              Grants(reader.databaseType, kind)
                  <=> kind \in {"Enterprise", "City", "Country"}
        /\ Queried =>
              (Rejected <=> ret.method \notin {"Enterprise", "City", "Country"})

C13_Witness ==
    /\ Opened
    /\ DeclaredName = "DBIP-Location-ISP (compat=Enterprise)"
    /\ ret.method = "Domain" /\ Rejected

\* The ISP-flavored type names.
ISPNames == {"GeoIP2-ISP", "GeoIP2-Precision-ISP"}

\* C14: an ISP-flavored type name resolves, with no error, to exactly the
\* mask ISP | ASN: ISP and ASN are permitted and every other method returns
\* InvalidMethodError whose DatabaseType is the declared type name.
C14_ISPMask ==
    (Opened /\ DeclaredName \in ISPNames) =>
        /\ openErr = NilErr
        /\ reader.databaseType = BitOr(isISP, isASN)
        /\ \A kind \in Kinds :
              Grants(reader.databaseType, kind) <=> kind \in {"ISP", "ASN"}
        /\ Queried =>
              IF ret.method \in {"ISP", "ASN"}
              THEN ~Rejected
              ELSE /\ Rejected
                   /\ ret.err.DatabaseType = DeclaredName
                   /\ ret.rec.nil

C14_Witness ==
    /\ Opened
    /\ DeclaredName = "GeoIP2-ISP"
    /\ ret.method = "Country"
    /\ ret.err = InvalidMethodError("Country", "GeoIP2-ISP")

\* The legacy and compat type names of the table, each with the canonical
\* name it stands for.
Canonical ==
    "DBIP-ASN-Lite (compat=GeoLite2-ASN)" :> "GeoLite2-ASN"
        @@ "DBIP-Location (compat=City)" :> "GeoIP2-City"
        @@ "DBIP-City-Lite" :> "GeoLite2-City"
        @@ "DBIP-Country-Lite" :> "GeoLite2-Country"
        @@ "DBIP-Country" :> "GeoIP2-Country"
        @@ "DBIP-ISP (compat=Enterprise)" :> "GeoIP2-Enterprise"
        @@ "DBIP-Location-ISP (compat=Enterprise)" :> "GeoIP2-Enterprise"

\* What the table resolves a type name to.
Resolve(name) == getDBType([Metadata |-> [DatabaseType |-> name]])

\* C15: a legacy or compat type name resolves to the mask of its canonical
\* counterpart, with no error; "DBIP-ASN-Lite (compat=GeoLite2-ASN)"
\* resolves to the ASN bit alone, so ASN is the one method permitted.
C15_CompatNameHasCanonicalMask ==
    (Opened /\ DeclaredName \in DOMAIN Canonical) =>
        /\ openErr = NilErr
        /\ Resolve(Canonical[DeclaredName]).err = NilErr
        /\ reader.databaseType = Resolve(Canonical[DeclaredName]).dbType
        /\ DeclaredName = "DBIP-ASN-Lite (compat=GeoLite2-ASN)" =>
              /\ reader.databaseType = isASN
              /\ \A kind \in Kinds :
                    Grants(reader.databaseType, kind) <=> kind = "ASN"
              /\ Queried => (Rejected <=> ret.method # "ASN")

C15_Witness ==
    /\ Opened
    /\ DeclaredName = "DBIP-ASN-Lite (compat=GeoLite2-ASN)"
    /\ ret.method = "ASN" /\ ret.err = NilErr
    /\ Node.found /\ ret.rec.v.AutonomousSystemNumber = 1

\* The last call was a granted query of an address whose record the decoder
\* fails on.
QueriedCorrupt == Queried /\ Granted /\ Node.found /\ Node.corrupt

\* C16: when Decode fails in a permitted query, the method returns the
\* error of Decode as it is, with a non-nil record that holds what Decode
\* left in it; IPAddress and Network stay unset though the record was found,
\* and the method asks for neither Found nor Prefix.
C16_DecodeErrorIsReturnedUnstamped ==
    QueriedCorrupt =>
        /\ ret.err = Decode(ret.method, Node).err
        /\ ret.err = DecodeError
        /\ ~ret.rec.nil
        /\ ret.rec.v = Decode(ret.method, Node).v
        /\ IPAddressOf(ret.method, ret.rec.v) = ZeroAddr
        /\ NetworkOf(ret.method, ret.rec.v) = ZeroPrefix
        /\ ret.calls = <<"Lookup", "Decode">>

C16_Witness ==
    /\ QueriedCorrupt
    /\ ret.err = DecodeError
    /\ ~ret.rec.nil
    /\ SomeFieldSet(ret.method, ret.rec.v)

\* C17: the InvalidMethodError a query method returns carries the name of
\* that method in Method and the type name the database declares in
\* DatabaseType.
C17_InvalidMethodErrorFields ==
    (Queried /\ Rejected) =>
        /\ ret.err.Method = ret.method
        /\ ret.err.DatabaseType = DeclaredName
        /\ ret.err = InvalidMethodError(ret.method, DeclaredName)

C17_Witness ==
    /\ ret.method = "AnonymousIP"
    /\ DeclaredName = "GeoLite2-City"
    /\ ret.err = InvalidMethodError("AnonymousIP", "GeoLite2-City")

\* The last call repeats the call whose return values were kept: the same
\* method with the same address.
Repeated ==
    /\ first # NoCall
    /\ ret.method = first.method
    /\ ret.ipAddress = first.ipAddress

C22_MetadataIsPassthrough ==
    /\ [](ret.method = "Metadata" =>
            /\ ret.meta = mmdb.Metadata
            /\ ret.meta.DatabaseType = DeclaredName)
    /\ [][ret'.method = "Metadata" =>
            /\ reader' = reader
            /\ mmdb' = mmdb
            /\ openErr' = openErr]_vars

C22_Witness ==
    /\ ret.method = "Metadata"
    /\ ret.meta.DatabaseType = "GeoIP2-City"
    /\ ~mmdb.closed

\* C23: when the engine cannot open the database, Open and FromBytes return
\* the error of the engine as it is with a nil Reader, and the table is not
\* asked: no mask is resolved and no UnknownDatabaseTypeError is made.
C23_EngineOpenErrorIsReturned ==
    /\ openErr = OpenError => (reader = NilReader /\ mmdb = NoEngine)
    /\ mmdb = NoEngine =>
          /\ reader = NilReader
          /\ openErr \in {NilErr, OpenError}

C23_Witness == openErr = OpenError /\ reader.nil /\ mmdb = NoEngine

\* C24: the mask and the engine of a Reader are fixed when it is opened: the
\* mask is always the one the table resolves for the declared type name, and
\* no query, Metadata or Close call changes the mask, the engine's metadata
\* or the engine's data, whatever the call returns.
C24_MaskAndEngineAreFixed ==
    /\ [](Opened => reader.databaseType = Resolve(DeclaredName).dbType)
    /\ [][Opened =>
            /\ reader' = reader
            /\ mmdb'.Metadata = mmdb.Metadata
            /\ mmdb'.data = mmdb.data]_vars

C24_Witness ==
    /\ Opened
    /\ mmdb.closed
    /\ reader.databaseType = BitOr(isISP, isASN)
    /\ DeclaredName = "GeoIP2-Precision-ISP"

\* C25: a permitted query performs one Lookup and then one Decode, and no
\* second attempt; it asks Found only when Decode returned no error, asks
\* Prefix only for a found record, and these come last.
C25_OneLookupOneDecode ==
    (Queried /\ Granted) =>
        /\ ret.calls \in {<<"Lookup", "Decode">>,
                          <<"Lookup", "Decode", "Found">>,
                          <<"Lookup", "Decode", "Found", "Prefix">>}
        /\ ret.err # NilErr <=> ret.calls = <<"Lookup", "Decode">>
        /\ Has(ret.calls, "Prefix") <=> (ret.err = NilErr /\ Node.found)

C25_Witness ==
    /\ Queried /\ Granted
    /\ ret.method = "Country"
    /\ ret.calls = <<"Lookup", "Decode", "Found", "Prefix">>

\* C27: whenever Open or FromBytes returns an error,
\* UnknownDatabaseTypeError included, the Reader it returns is nil and the
\* engine it opened, if any, has been closed.
C27_OpenErrorMeansNilReader ==
    openErr # NilErr =>
        /\ reader.nil
        /\ mmdb = NoEngine \/ mmdb.closed

\* C28: the mask resolved for a type name the table does not list is 0, and
\* on a Reader built from such a database every query method returns
\* InvalidMethodError with no record and performs no Lookup.
C28_UnknownTypeGrantsNothing ==
    (Opened /\ openErr.type = "UnknownDatabaseTypeError") =>
        /\ reader.databaseType = 0
        /\ \A kind \in Kinds : ~Grants(reader.databaseType, kind)
        /\ Queried =>
              /\ Rejected
              /\ ret.rec.nil
              /\ ret.calls = <<>>

C28_Witness ==
    /\ Opened
    /\ openErr = UnknownDatabaseTypeError("GeoIP2-City-Shield")
    /\ ret.method = "Enterprise" /\ Rejected

\* The sets of query kinds a row of the table grants.
MaskSets ==
    {{"AnonymousIP"}, {"ASN"}, {"City", "Country"}, {"ConnectionType"},
     {"Domain"}, {"Enterprise", "City", "Country"}, {"ISP", "ASN"}}

\* The kinds a mask grants.
GrantedKinds(mask) == {kind \in Kinds : Grants(mask, kind)}

\* C29: the eight capability bits are single bits, no two the same, and the
\* mask of a Reader opened with no error grants exactly one of the seven
\* sets of kinds of the table; a method is permitted if and only if its kind
\* is in that set.
C29_MaskIsOneOfSevenSets ==
    /\ \A kind \in Kinds :
          /\ CapabilityBit(kind) > 0
          /\ BitAnd(CapabilityBit(kind), CapabilityBit(kind) - 1) = 0
    /\ \A k1, k2 \in Kinds :
          k1 # k2 => CapabilityBit(k1) # CapabilityBit(k2)
    /\ (Opened /\ openErr = NilErr) =>
          /\ GrantedKinds(reader.databaseType) \in MaskSets
          /\ Queried =>
                (Rejected <=>
                    ret.method \notin GrantedKinds(reader.databaseType))
          /\ DeclaredName = "GeoIP2-ISP" =>
                "ASN" \in GrantedKinds(reader.databaseType)
          /\ DeclaredName = "GeoLite2-ASN" =>
                "ISP" \notin GrantedKinds(reader.databaseType)
          /\ DeclaredName = "GeoIP2-City" =>
                "Enterprise" \notin GrantedKinds(reader.databaseType)

C29_Witness ==
    /\ Opened /\ openErr = NilErr
    /\ DeclaredName = "GeoLite2-ASN"
    /\ ret.method = "ISP" /\ Rejected

\* C30: a query method returns one of three shapes: no record with
\* InvalidMethodError when the mask lacks its bit, a record with the error
\* of Decode when Decode fails, a record with a nil error otherwise; no
\* record comes only with InvalidMethodError, and a nil error only with a
\* record.
C30_ThreeReturnShapes ==
    Queried =>
        /\ IF ~Granted
           THEN ret.rec.nil /\ Rejected
           ELSE IF Node.found /\ Node.corrupt
           THEN ~ret.rec.nil /\ ret.err = DecodeError
           ELSE ~ret.rec.nil /\ ret.err = NilErr
        /\ ret.rec.nil <=> Rejected
        /\ ret.err = NilErr => ~ret.rec.nil

C30_Witness ==
    /\ Queried /\ Granted
    /\ ret.method = "ISP"
    /\ Node.found /\ Node.corrupt
    /\ ~ret.rec.nil /\ ret.err = DecodeError

----------------------------------------------------------------------------
(* Concurrent callers: goroutines that share one opened Reader.  A call is *)
(* a sequence of steps over the caller's own locals (result, val, err);    *)
(* the steps of the callers interleave.  val is declared by the call, and  *)
(* since the call returns &val it lives on the heap.                       *)

\* One type name that grants two kinds and one that grants City and Country.
ConcurrentNames == {"GeoIP2-ISP", "GeoLite2-City"}

ConcurrentInit ==
    /\ \E name \in ConcurrentNames :
         \E db \in ReplayTrees(name) :
            LET engine == [Metadata |-> [DatabaseType |-> name],
                           data |-> db, closed |-> FALSE]
            IN  /\ reader = MkReader(getDBType(engine).dbType)
                /\ openErr = getDBType(engine).err
                /\ mmdb = engine
    /\ ret = NoCall
    /\ val = NoVal
    /\ out = NoOut
    /\ first = NoCall
    /\ proc = NoProcs
    /\ heap = <<>>

\* One struct declared outside the method: every call writes the same one.
Alloc_Shared(h, c) == 1

\* var val ASN: the address of the struct that the call of c declares, a
\* new one for every call.
Alloc(h, c) == Len(h) + 1

\* The heap with v written at address a.
Store(h, a, v) ==
    IF a = Len(h) + 1 THEN Append(h, v)
    ELSE IF a \in 1..Len(h) THEN [h EXCEPT ![a] = v]
    ELSE h

\* A caller calls a query method with an address.
Begin ==
    /\ Usable
    /\ \E c \in Callers, method \in Kinds, ipAddress \in Addrs :
         /\ proc[c].pc = "idle"
         /\ proc' = [proc EXCEPT ![c] =
                        [NoProc EXCEPT !.pc = "check", !.method = method,
                                       !.ipAddress = ipAddress]]
    /\ UNCHANGED <<reader, openErr, mmdb, ret, val, out, first, heap>>

\* if isASN&r.databaseType == 0 { return nil, InvalidMethodError{...} }
CheckCapability ==
    /\ \E c \in Callers :
         /\ proc[c].pc = "check"
         /\ proc' = [proc EXCEPT ![c] =
                IF BitAnd(CapabilityBit(proc[c].method),
                          reader.databaseType) = 0
                THEN [@ EXCEPT !.pc = "done", !.ptr = 0,
                        !.err = InvalidMethodError(
                                    proc[c].method,
                                    Reader_Metadata(reader, mmdb).DatabaseType)]
                ELSE [@ EXCEPT !.pc = "lookup"]]
    /\ UNCHANGED <<reader, openErr, mmdb, ret, val, out, first, heap>>

\* The result of Lookup kept in one place that the callers share.
DoLookup_SharedResult ==
    /\ \E c \in Callers :
         /\ proc[c].pc = "lookup"
         /\ proc' = [d \in Callers |->
                IF d = c
                THEN [proc[d] EXCEPT !.pc = "decode",
                         !.result = Lookup(mmdb, proc[c].ipAddress)]
                ELSE [proc[d] EXCEPT
                         !.result = Lookup(mmdb, proc[c].ipAddress)]]
    /\ UNCHANGED <<reader, openErr, mmdb, ret, val, out, first, heap>>

\* result := r.mmdbReader.Lookup(ipAddress)
DoLookup ==
    /\ \E c \in Callers :
         /\ proc[c].pc = "lookup"
         /\ proc' = [proc EXCEPT ![c] =
                [@ EXCEPT !.pc = "decode",
                          !.result = Lookup(mmdb, proc[c].ipAddress)]]
    /\ UNCHANGED <<reader, openErr, mmdb, ret, val, out, first, heap>>

\* var val ASN; err := result.Decode(&val); if err != nil { return &val, err }
DoDecode ==
    /\ \E c \in Callers :
         /\ proc[c].pc = "decode"
         /\ LET a == Alloc(heap, c)
                dec == Decode(proc[c].method, proc[c].result)
            IN  /\ heap' = Store(heap, a, dec.v)
                /\ proc' = [proc EXCEPT ![c] =
                       [@ EXCEPT !.pc = IF dec.err # NilErr THEN "done"
                                        ELSE "found",
                                 !.ptr = a, !.err = dec.err]]
    /\ UNCHANGED <<reader, openErr, mmdb, ret, val, out, first>>

\* if result.Found() { val.IPAddress = ipAddress; val.Network =
\* result.Prefix() }; return &val, nil
DoStamp ==
    /\ \E c \in Callers :
         /\ proc[c].pc = "found"
         /\ heap' = IF Found(proc[c].result)
                    THEN Store(heap, proc[c].ptr,
                               Stamp(proc[c].method, heap[proc[c].ptr],
                                     proc[c].ipAddress,
                                     Prefix(proc[c].result)))
                    ELSE heap
         /\ proc' = [proc EXCEPT ![c] = [@ EXCEPT !.pc = "done"]]
    /\ UNCHANGED <<reader, openErr, mmdb, ret, val, out, first>>

\* No call is running.
Quiet == \A c \in Callers : proc[c].pc \in {"idle", "done"}

\* Close, which the caller keeps apart from the calls in flight.
QuietClose == Quiet /\ Close

ConcurrentNext ==
    \/ Begin
    \/ CheckCapability
    \/ DoLookup
    \/ DoDecode
    \/ DoStamp
    \/ Metadata
    \/ QuietClose

ConcurrentSpec == ConcurrentInit /\ [][ConcurrentNext]_vars

\* What the query method of a kind returns when it runs alone.
Query(method, r, m, ipAddress) ==
    CASE method = "Enterprise" -> Reader_Enterprise(r, m, ipAddress)
      [] method = "City" -> Reader_City(r, m, ipAddress)
      [] method = "Country" -> Reader_Country(r, m, ipAddress)
      [] method = "AnonymousIP" -> Reader_AnonymousIP(r, m, ipAddress)
      [] method = "ASN" -> Reader_ASN(r, m, ipAddress)
      [] method = "ConnectionType" -> Reader_ConnectionType(r, m, ipAddress)
      [] method = "Domain" -> Reader_Domain(r, m, ipAddress)
      [] method = "ISP" -> Reader_ISP(r, m, ipAddress)

\* The call of c has returned.
Done(c) == proc[c].pc = "done"

\* C21: with the calls of several callers interleaved on one open Reader,
\* each call returns the record and the error that the method returns when
\* it runs alone, and no step of a call writes the mask or the engine of the
\* Reader.
C21_InterleavedCallsReturnAsAlone ==
    /\ [](\A c \in Callers :
            Done(c) =>
                LET alone == Query(proc[c].method, reader, mmdb,
                                   proc[c].ipAddress)
                IN  /\ proc[c].err = alone.err
                    /\ proc[c].ptr = 0 <=> alone.rec.nil
                    /\ proc[c].ptr # 0 => heap[proc[c].ptr] = alone.rec.v)
    /\ [][proc' # proc => (reader' = reader /\ mmdb' = mmdb)]_vars

C21_Witness ==
    /\ Done("c1") /\ Done("c2")
    /\ proc["c1"].method = "ISP" /\ proc["c2"].method = "ISP"
    /\ proc["c1"].ipAddress # proc["c2"].ipAddress
    /\ proc["c1"].ptr = 2 /\ proc["c2"].ptr = 1
    /\ proc["c1"].err = NilErr /\ proc["c2"].err = NilErr
    /\ heap[1].ISP = "x" /\ heap[2].ISP = ""
    /\ heap[1].IPAddress = proc["c2"].ipAddress
    /\ heap[2].IPAddress = proc["c1"].ipAddress

\* C26: every call that returns a record returns a struct of its own: no
\* two calls return the same one, and a struct that a call has returned is
\* changed by no later step of a query, by no Metadata call and by no Close.
C26_RecordsAreFresh ==
    /\ [](\A c1, c2 \in Callers :
            (c1 # c2 /\ Done(c1) /\ Done(c2) /\ proc[c1].ptr # 0) =>
                proc[c1].ptr # proc[c2].ptr)
    /\ [][\A c \in Callers :
            (Done(c) /\ proc[c].ptr # 0) =>
                /\ proc[c].ptr \in 1..Len(heap')
                /\ heap'[proc[c].ptr] = heap[proc[c].ptr]]_vars

C26_Witness ==
    /\ Done("c1") /\ Done("c2")
    /\ proc["c1"].method = "City" /\ proc["c2"].method = "Country"
    /\ proc["c1"].ptr = 1 /\ proc["c2"].ptr = 2
    /\ heap[1].Country.ISOCode = "x"
    /\ heap[2].Country.ISOCode = ""
    /\ mmdb.closed

====
